---------------------------- MODULE Spec2Model ----------------------------
(***************************************************************************)
(* A model of tally_extractor.py: the extraction pipeline over ".mctal"    *)
(* files.  A Python str is a sequence of one-character strings, a list is  *)
(* a sequence, and a call that can raise returns a record                  *)
(* [err |-> <exception name or "none">, val |-> <returned value>].        *)
(***************************************************************************)
EXTENDS Integers, Sequences, FiniteSets, TLC

VARIABLES
    norm,           \* remove_blank_lines applied once and twice to raw lines
    meta,           \* extract_version / extract_particles on a line sequence
    tally,          \* extract_tally_* / extract_energies / extract_errors
    dir_entries,    \* the names os.listdir finds in the directory
    pc,             \* position of process_files
    listings,       \* number of os.listdir calls made so far
    mctal_files,    \* the sorted list of line 61
    idx,            \* 1-based position of `file` in mctal_files
    open_handles,   \* file handles currently open
    was_read,       \* the open handle has been read to its end
    file_lines,     \* the normalized lines of the current file
    locals,         \* mcnp_version, particle_count, tally_values, ... of the loop body
    data_df,        \* the table built for the current file
    results_df,     \* the running aggregate table
    processed,      \* the files whose column triple was appended, in order: name and lines
    exported,       \* the table written to tally_extractor.xlsx, or NotWritten
    error           \* the exception that ended the run, or "none"

runvars == <<dir_entries, pc, listings, mctal_files, idx, open_handles, was_read,
             file_lines, locals, data_df, results_df, processed, exported, error>>
vars == <<norm, meta, tally, dir_entries, pc, listings, mctal_files, idx, open_handles,
          was_read, file_lines, locals, data_df, results_df, processed, exported, error>>

----------------------------------------------------------------------------
(* Bounds *)

MaxRawLines == 3

----------------------------------------------------------------------------
(* Characters and strings *)

UpperCase == <<"A","B","C","D","E","F","G","H","I","J","K","L","M",
               "N","O","P","Q","R","S","T","U","V","W","X","Y","Z">>
LowerCase == <<"a","b","c","d","e","f","g","h","i","j","k","l","m",
               "n","o","p","q","r","s","t","u","v","w","x","y","z">>
Digits == {"0","1","2","3","4","5","6","7","8","9"}

\* str.isspace for the characters of the model: what strip(), split() and \s treat
\* as whitespace.
IsSpace(c) == c \in {" ", "\t", "\n", "\r"}

\* \d
IsDigit(c) == c \in Digits

\* re.IGNORECASE compares characters up to letter case.
UpperCaseSet == {UpperCase[i] : i \in 1..Len(UpperCase)}

Lower(c) ==
    IF c \in UpperCaseSet
    THEN LowerCase[CHOOSE i \in 1..Len(UpperCase) : UpperCase[i] = c]
    ELSE c

LowerStr(s) == [i \in 1..Len(s) |-> Lower(s[i])]

\* `sub in s`: s[i .. i+Len(sub)-1] = sub for some i.
StartsAt(s, sub, i) ==
    /\ i >= 1
    /\ i + Len(sub) - 1 <= Len(s)
    /\ \A j \in 1..Len(sub) : s[i + j - 1] = sub[j]

Contains(s, sub) == \E i \in 1..(Len(s) + 1) : StartsAt(s, sub, i)

\* s.endswith(suffix)
EndsWith(s, suffix) ==
    /\ Len(suffix) <= Len(s)
    /\ StartsAt(s, suffix, Len(s) - Len(suffix) + 1)

\* str.strip(): drop the leading and the trailing whitespace characters.
strip(s) ==
    LET keep == {i \in 1..Len(s) : ~IsSpace(s[i])}
    IN  IF keep = {} THEN <<>>
        ELSE LET lo == CHOOSE i \in keep : \A j \in keep : i <= j
                 hi == CHOOSE i \in keep : \A j \in keep : j <= i
             IN  SubSeq(s, lo, hi)

\* str.split(): the maximal runs of non-whitespace characters, left to right.
RECURSIVE split(_)
split(s) ==
    IF s = <<>> THEN <<>>
    ELSE IF IsSpace(Head(s)) THEN split(Tail(s))
    ELSE LET stops == {i \in 1..Len(s) : IsSpace(s[i])}
             n == IF stops = {} THEN Len(s)
                  ELSE (CHOOSE i \in stops : \A j \in stops : i <= j) - 1
         IN  <<SubSeq(s, 1, n)>> \o split(SubSeq(s, n + 1, Len(s)))

\* A call's outcome.
Ok(v) == [err |-> "none", val |-> v]
Raise(e) == [err |-> e, val |-> <<>>]
NotRun == [err |-> "not run", val |-> <<>>]

----------------------------------------------------------------------------
(* remove_blank_lines *)

\* A mutation of remove_blank_lines: the filter strips, the kept line does not.
RECURSIVE remove_blank_lines_keeps_raw(_)
remove_blank_lines_keeps_raw(lines) ==
    IF lines = <<>> THEN <<>>
    ELSE IF strip(Head(lines)) # <<>>
         THEN <<Head(lines)>> \o remove_blank_lines_keeps_raw(Tail(lines))
         ELSE remove_blank_lines_keeps_raw(Tail(lines))

\* [line.strip() for line in file_lines if line.strip()]
RECURSIVE remove_blank_lines(_)
remove_blank_lines(lines) ==
    IF lines = <<>> THEN <<>>
    ELSE IF strip(Head(lines)) # <<>>
         THEN <<strip(Head(lines))>> \o remove_blank_lines(Tail(lines))
         ELSE remove_blank_lines(Tail(lines))

\* Raw lines as readlines() yields them: text, indentation, line terminators.
RawPool ==
    { <<"\n">>,
      <<" ", "\t", "\n">>,
      <<"a", "\n">>,
      <<" ", "a", " ", "b", " ", "\n">>,
      <<"\t", "v", "a", "l", "s", "\r", "\n">>,
      <<"b">>,
      <<" ">> }

RECURSIVE SeqsUpTo(_, _)
SeqsUpTo(S, n) ==
    IF n = 0 THEN {<<>>}
    ELSE LET shorter == SeqsUpTo(S, n - 1)
         IN  shorter \cup {Append(q, x) : q \in {r \in shorter : Len(r) = n - 1}, x \in S}

NormIdle == [in |-> <<>>, once |-> NotRun, twice |-> NotRun]
MetaIdle == [in |-> <<>>, version |-> NotRun, particles |-> NotRun]
TallyIdle == [in |-> <<>>, names |-> NotRun, values |-> NotRun,
              energies |-> NotRun, errors |-> NotRun]

NotWritten == [written |-> FALSE, table |-> <<>>]

LocalsIdle ==
    [file_name |-> <<>>, mcnp_version |-> <<>>, particle_count |-> <<>>,
     tally_values |-> <<>>, tally_names |-> <<>>, energies |-> <<>>, errors |-> <<>>]

RunIdle ==
    /\ dir_entries = {}
    /\ pc = "idle"
    /\ listings = 0
    /\ mctal_files = <<>>
    /\ idx = 0
    /\ open_handles = {}
    /\ was_read = FALSE
    /\ file_lines = <<>>
    /\ locals = LocalsIdle
    /\ data_df = <<>>
    /\ results_df = <<>>
    /\ processed = <<>>
    /\ exported = NotWritten
    /\ error = "none"

\* The normalizer on its own: any raw line sequence, normalized once, then again.
InitNorm ==
    /\ \E L \in SeqsUpTo(RawPool, MaxRawLines) : norm = [NormIdle EXCEPT !.in = L]
    /\ meta = MetaIdle
    /\ tally = TallyIdle
    /\ RunIdle

NormalizeOnce ==
    /\ norm.once = NotRun
    /\ norm' = [norm EXCEPT !.once = Ok(remove_blank_lines(norm.in))]
    /\ UNCHANGED <<meta, tally, runvars>>

NormalizeTwice ==
    /\ norm.once # NotRun
    /\ norm.twice = NotRun
    /\ norm' = [norm EXCEPT !.twice = Ok(remove_blank_lines(norm.once.val))]
    /\ UNCHANGED <<meta, tally, runvars>>

NextNorm == NormalizeOnce \/ NormalizeTwice

SpecNorm == InitNorm /\ [][NextNorm]_vars

----------------------------------------------------------------------------
(* C9 *)

IsSubsequenceOfStripped(out, in) ==
    \E f \in [1..Len(out) -> 1..Len(in)] :
        /\ \A i \in 1..Len(out) : out[i] = strip(in[f[i]])
        /\ \A i, j \in 1..Len(out) : i < j => f[i] < f[j]
        /\ \A k \in 1..Len(in) :
              (\E c \in 1..Len(in[k]) : ~IsSpace(in[k][c])) => \E i \in 1..Len(out) : f[i] = k

\* C9: remove_blank_lines is idempotent; its output is the non-blank input lines in
\* their order, each without leading or trailing whitespace, and none of them empty
\* or whitespace-only.
C9_Idempotent ==
    /\ norm.once # NotRun =>
          /\ norm.once.err = "none"
          /\ IsSubsequenceOfStripped(norm.once.val, norm.in)
          /\ \A i \in 1..Len(norm.once.val) :
                LET l == norm.once.val[i]
                IN  /\ l # <<>>
                    /\ \E c \in 1..Len(l) : ~IsSpace(l[c])
                    /\ ~IsSpace(l[1])
                    /\ ~IsSpace(l[Len(l)])
    /\ norm.twice # NotRun => norm.twice = norm.once

\* A run that dropped a blank line, trimmed a padded one and was normalized twice.
C9_Witness ==
    /\ norm.twice # NotRun
    /\ Len(norm.once.val) >= 2
    /\ Len(norm.once.val) < Len(norm.in)
    /\ \E k \in 1..Len(norm.in) : strip(norm.in[k]) # norm.in[k] /\ strip(norm.in[k]) # <<>>

----------------------------------------------------------------------------
(* extract_version, extract_particles *)

MinNpsDigits == 8
MaxNpsDigits == 11

LabelMCNPX == <<"M","C","N","P","X">>
LabelMCNP6 == <<"M","C","N","P","6">>
VersionNotFound == <<"V","e","r","s","i","o","n"," ","n","o","t"," ","f","o","u","n","d">>
ParticlesNotFound == <<"P","a","r","t","i","c","l","e","s"," ","n","o","t"," ","f","o","u","n","d">>
NpsPrefix == <<"N","P","S",":"," ">>

\* re.search(r"mcnpx", s, re.IGNORECASE)
SearchMcnpx(s) == Contains(LowerStr(s), <<"m","c","n","p","x">>)

\* re.search(r"mcnp\s+6", s, re.IGNORECASE)
SearchMcnp6(s) ==
    \E i \in {k \in 1..Len(s) : Lower(s[k]) = "m"} :
        /\ StartsAt(LowerStr(SubSeq(s, i, Len(s))), <<"m","c","n","p">>, 1)
        /\ \E n \in 1..Len(s) :
              /\ i + 4 + n <= Len(s)
              /\ \A j \in (i + 4)..(i + 3 + n) : IsSpace(s[j])
              /\ s[i + 4 + n] = "6"

\* A mutation of extract_version: the two searches are tried in the other order.
extract_version_mcnp6_first(lines) ==
    IF Len(lines) = 0 THEN Raise("IndexError")
    ELSE LET first_line == lines[1]
         IN  IF SearchMcnp6(first_line) THEN Ok(LabelMCNP6)
             ELSE IF SearchMcnpx(first_line) THEN Ok(LabelMCNPX)
             ELSE Ok(VersionNotFound)

\* extract_version; file_lines[0] raises IndexError on an empty list.
extract_version(lines) ==
    IF Len(lines) = 0 THEN Raise("IndexError")
    ELSE LET first_line == lines[1]
         IN  IF SearchMcnpx(first_line) THEN Ok(LabelMCNPX)
             ELSE IF SearchMcnp6(first_line) THEN Ok(LabelMCNP6)
             ELSE Ok(VersionNotFound)

\* The matches of r"\s(\d{8,11})\s" in s, as <<i, n>>: a whitespace character at i,
\* n digits after it, a whitespace character after them.
ParticleMatches(s) ==
    {m \in (1..Len(s)) \X (MinNpsDigits..MaxNpsDigits) :
        /\ IsSpace(s[m[1]])
        /\ m[1] + m[2] + 1 <= Len(s)
        /\ \A j \in (m[1] + 1)..(m[1] + m[2]) : IsDigit(s[j])
        /\ IsSpace(s[m[1] + m[2] + 1])}

\* re.search: the leftmost match, the longest digit run at it; group(1) is the run.
SearchParticles(s) ==
    LET ms == ParticleMatches(s)
    IN  IF ms = {} THEN <<>>
        ELSE LET i == CHOOSE a \in {m[1] : m \in ms} : \A m \in ms : a <= m[1]
                 n == CHOOSE b \in {m[2] : m \in {q \in ms : q[1] = i}} :
                          \A m \in {q \in ms : q[1] = i} : m[2] <= b
             IN  <<SubSeq(s, i + 1, i + n)>>

\* extract_particles; file_lines[0] raises IndexError on an empty list.
extract_particles(lines) ==
    IF Len(lines) = 0 THEN Raise("IndexError")
    ELSE LET match == SearchParticles(lines[1])
         IN  IF match # <<>> THEN Ok(NpsPrefix \o match[1]) ELSE Ok(ParticlesNotFound)

\* The words a header line is made of.
MetaTokens ==
    { <<"M","c","N","p","X">>,
      <<"m","C","n","P">>,
      <<"6">>,
      <<"m","c","n","p","6">>,
      <<"1","2","3","4","5","6","7","8">>,
      <<"1","2","3","4","5","6","7">>,
      <<"8","7","6","5","4","3","2","1","0","9","8">>,
      <<"1","2","3","4","5","6","7","8","9","0","1","2">>,
      <<"x">> }

MaxTokens == 3

RECURSIVE Join(_, _)
Join(tokens, sep) ==
    IF tokens = <<>> THEN <<>>
    ELSE IF Len(tokens) = 1 THEN tokens[1]
    ELSE tokens[1] \o sep \o Join(Tail(tokens), sep)

\* A line after the header that would match both patterns were it examined.
LaterRawLine ==
    <<"m","c","n","p","x"," ","1","2","3","4","5","6","7","8","9"," ","m","c","n","p"," ","6","\n">>

\* Raw files: an empty or all-blank file; an indented header of words separated by
\* one space; a header of words separated by space and tab, then a later line.
MetaRawFiles ==
    {<<>>, << <<"\n">>, <<" ", "\n">> >>}
    \cup { << <<" ">> \o Join(ts, <<" ">>) \o <<"\n">> >> :
             ts \in SeqsUpTo(MetaTokens, MaxTokens) \ {<<>>} }
    \cup { << Join(ts, <<" ", "\t">>) \o <<"\r", "\n">>, LaterRawLine >> :
             ts \in SeqsUpTo(MetaTokens, MaxTokens) \ {<<>>} }

\* The metadata extractors on the normalized lines of a raw file.
InitMeta ==
    /\ \E raw \in MetaRawFiles : meta = [MetaIdle EXCEPT !.in = remove_blank_lines(raw)]
    /\ norm = NormIdle
    /\ tally = TallyIdle
    /\ RunIdle

ExtractVersion ==
    /\ meta.version = NotRun
    /\ meta' = [meta EXCEPT !.version = extract_version(meta.in)]
    /\ UNCHANGED <<norm, tally, runvars>>

ExtractParticles ==
    /\ meta.version # NotRun
    /\ meta.particles = NotRun
    /\ meta' = [meta EXCEPT !.particles = extract_particles(meta.in)]
    /\ UNCHANGED <<norm, tally, runvars>>

NextMeta == ExtractVersion \/ ExtractParticles

SpecMeta == InitMeta /\ [][NextMeta]_vars

----------------------------------------------------------------------------
(* C3, C4, C8 *)

\* C3: on every line sequence remove_blank_lines can produce, the empty one included,
\* extract_version and extract_particles raise no error.
C3_NoErrorOnAnyNormalizedInput ==
    /\ meta.version # NotRun => meta.version.err = "none"
    /\ meta.particles # NotRun => meta.particles.err = "none"

IsNpsToken(t) ==
    /\ Len(t) >= 8
    /\ Len(t) <= 11
    /\ \A i \in 1..Len(t) : t[i] \in Digits

\* C4: the label is "NPS: " and the first whitespace-delimited token of 8 to 11
\* digits of the first line, wherever that token stands, and "Particles not found"
\* when the first line has no such token.
C4_FirstNpsTokenAnywhere ==
    (meta.particles # NotRun /\ meta.in # <<>>) =>
        LET toks == split(meta.in[1])
            hits == {i \in 1..Len(toks) : IsNpsToken(toks[i])}
        IN  IF hits = {} THEN meta.particles = Ok(ParticlesNotFound)
            ELSE meta.particles =
                    Ok(NpsPrefix \o toks[CHOOSE i \in hits : \A j \in hits : i <= j])

HasAnyCase(s, word) ==
    \E i \in 1..Len(s) :
        /\ i + Len(word) - 1 <= Len(s)
        /\ \A j \in 1..Len(word) : Lower(s[i + j - 1]) = word[j]

HasMcnpSpace6(s) ==
    \E i \in 1..Len(s), k \in 1..Len(s) :
        /\ i + 4 < k
        /\ \A j \in 1..4 : Lower(s[i + j - 1]) = <<"m","c","n","p">>[j]
        /\ \A j \in (i + 4)..(k - 1) : s[j] \in {" ", "\t", "\n", "\r"}
        /\ s[k] = "6"

\* C8: the version label is MCNPX when the first line holds "mcnpx" in any letter
\* case, else MCNP6 when it holds "mcnp", whitespace, "6", else "Version not found";
\* later lines do not matter.
C8_VersionFromFirstLine ==
    (meta.version # NotRun /\ meta.in # <<>>) =>
        meta.version =
            IF HasAnyCase(meta.in[1], <<"m","c","n","p","x">>) THEN Ok(LabelMCNPX)
            ELSE IF HasMcnpSpace6(meta.in[1]) THEN Ok(LabelMCNP6)
            ELSE Ok(VersionNotFound)

\* A first line with both patterns, labelled MCNPX, and a later line in the file.
C8_Witness ==
    /\ meta.version = Ok(LabelMCNPX)
    /\ HasMcnpSpace6(meta.in[1])
    /\ Len(meta.in) > 1

----------------------------------------------------------------------------
(* extract_tally_names, extract_tally_values, extract_energies, extract_errors *)

TallyWord == <<"t","a","l","l","y">>
ValsWord == <<"v","a","l","s">>

\* The offsets of lines 30 and 34.
NameOffset == 2
ValueOffset == 1

\* [lines[i + offset] for i, line in enumerate(lines) if <line is a marker>], from
\* position i on; lines[i + offset] past the end raises IndexError.
RECURSIVE Following(_, _, _, _)
Following(lines, marks, offset, i) ==
    IF i > Len(lines) THEN Ok(<<>>)
    ELSE IF i \notin marks THEN Following(lines, marks, offset, i + 1)
    ELSE IF i + offset > Len(lines) THEN Raise("IndexError")
    ELSE LET rest == Following(lines, marks, offset, i + 1)
         IN  IF rest.err # "none" THEN rest
             ELSE Ok(<<lines[i + offset]>> \o rest.val)

\* A mutation of extract_tally_names: the name is taken one line after the marker.
extract_tally_names_next_line(lines) ==
    Following(lines, {i \in 1..Len(lines) : Contains(lines[i], TallyWord)}, 1, 1)

\* extract_tally_names
extract_tally_names(lines) ==
    Following(lines, {i \in 1..Len(lines) : Contains(lines[i], TallyWord)}, NameOffset, 1)

\* extract_tally_values
extract_tally_values(lines) ==
    Following(lines, {i \in 1..Len(lines) : lines[i] = ValsWord}, ValueOffset, 1)

\* [pick(value.split()) for value in tally_values]; indexing an empty token list
\* raises IndexError.
RECURSIVE TokenOfEach(_, _)
TokenOfEach(values, last) ==
    IF values = <<>> THEN Ok(<<>>)
    ELSE LET toks == split(Head(values))
         IN  IF toks = <<>> THEN Raise("IndexError")
             ELSE LET rest == TokenOfEach(Tail(values), last)
                  IN  IF rest.err # "none" THEN rest
                      ELSE Ok(<<IF last THEN toks[Len(toks)] ELSE toks[1]>> \o rest.val)

\* extract_energies: value.split()[0]
extract_energies(tally_values) == TokenOfEach(tally_values, FALSE)

\* A mutation of extract_errors: the first token is taken instead of the last.
extract_errors_first_token(tally_values) == TokenOfEach(tally_values, FALSE)

\* extract_errors: value.split()[-1]
extract_errors(tally_values) == TokenOfEach(tally_values, TRUE)

\* Normalized lines: markers, lines that only look like markers, value blocks.
TallyLinePool ==
    { TallyWord,
      <<"T","a","l","l","y"," ","1">>,
      <<"a"," ","t","a","l","l","y">>,
      ValsWord,
      <<"v","a","l","s"," ","\t","2">> }

MaxTallyLines == 5

\* The tally extractors on any normalized line sequence.
InitTally ==
    /\ \E L \in SeqsUpTo(TallyLinePool, MaxTallyLines) : tally = [TallyIdle EXCEPT !.in = L]
    /\ norm = NormIdle
    /\ meta = MetaIdle
    /\ RunIdle

ExtractTallyValues ==
    /\ tally.values = NotRun
    /\ tally' = [tally EXCEPT !.values = extract_tally_values(tally.in)]
    /\ UNCHANGED <<norm, meta, runvars>>

ExtractTallyNames ==
    /\ tally.values # NotRun
    /\ tally.names = NotRun
    /\ tally' = [tally EXCEPT !.names = extract_tally_names(tally.in)]
    /\ UNCHANGED <<norm, meta, runvars>>

\* The value parser runs on what extract_tally_values returned.
ExtractEnergies ==
    /\ tally.values.err = "none"
    /\ tally.names # NotRun
    /\ tally.energies = NotRun
    /\ tally' = [tally EXCEPT !.energies = extract_energies(tally.values.val)]
    /\ UNCHANGED <<norm, meta, runvars>>

ExtractErrors ==
    /\ tally.energies # NotRun
    /\ tally.errors = NotRun
    /\ tally' = [tally EXCEPT !.errors = extract_errors(tally.values.val)]
    /\ UNCHANGED <<norm, meta, runvars>>

NextTally == ExtractTallyValues \/ ExtractTallyNames \/ ExtractEnergies \/ ExtractErrors

SpecTally == InitTally /\ [][NextTally]_vars

----------------------------------------------------------------------------
(* C5, C6 *)

HasWordTally(l) ==
    \E i \in 1..Len(l) :
        i + 4 <= Len(l) /\ l[i] = "t" /\ l[i+1] = "a" /\ l[i+2] = "l" /\ l[i+3] = "l" /\ l[i+4] = "y"

TallyMarkers(L) == {i \in 1..Len(L) : HasWordTally(L[i])}
ValsMarkers(L) == {i \in 1..Len(L) : L[i] = <<"v","a","l","s">>}

\* out holds, in order, the line `offset` after each marker.
OnePerMarker(out, L, marks, offset) ==
    /\ out.err = "none"
    /\ Len(out.val) = Cardinality(marks)
    /\ \A i \in marks :
          out.val[Cardinality({j \in marks : j <= i})] = L[i + offset]

\* C5: when every marker has the lines it needs after it, extract_tally_names returns
\* one entry per line containing "tally", the line two after it, and
\* extract_tally_values one entry per line equal to "vals", the line after it, both
\* in file order, nothing skipped or deduplicated.
C5_OneEntryPerMarker ==
    /\ (tally.names # NotRun /\ \A i \in TallyMarkers(tally.in) : i + 2 <= Len(tally.in)) =>
          OnePerMarker(tally.names, tally.in, TallyMarkers(tally.in), 2)
    /\ (tally.values # NotRun /\ \A i \in ValsMarkers(tally.in) : i + 1 <= Len(tally.in)) =>
          OnePerMarker(tally.values, tally.in, ValsMarkers(tally.in), 1)

\* Two tally markers and two vals markers, each with the lines it needs, where an
\* extracted name and an extracted value are themselves marker lines.
C5_Witness ==
    /\ tally.names # NotRun
    /\ tally.names.err = "none"
    /\ Len(tally.names.val) >= 2
    /\ \E i \in 1..Len(tally.names.val) : HasWordTally(tally.names.val[i])
    /\ tally.values.err = "none"
    /\ Len(tally.values.val) >= 2
    /\ \E i \in 1..Len(tally.values.val) : HasWordTally(tally.values.val[i])

IsToken(t, line, first) ==
    \E i \in 1..Len(line) :
        /\ i + Len(t) - 1 <= Len(line)
        /\ Len(t) >= 1
        /\ \A j \in 1..Len(t) : line[i + j - 1] = t[j] /\ t[j] \notin {" ", "\t", "\n", "\r"}
        /\ IF first
           THEN \A j \in 1..(i - 1) : line[j] \in {" ", "\t", "\n", "\r"}
           ELSE \A j \in (i + Len(t))..Len(line) : line[j] \in {" ", "\t", "\n", "\r"}
        /\ IF first
           THEN i + Len(t) <= Len(line) => line[i + Len(t)] \in {" ", "\t", "\n", "\r"}
           ELSE i > 1 => line[i - 1] \in {" ", "\t", "\n", "\r"}

\* C6: extract_energies and extract_errors return as many elements as there are value
\* blocks, the i-th being the first (last) whitespace-delimited token of the i-th
\* block, the same token for both when the block has a single token.
C6_FirstAndLastToken ==
    /\ tally.energies # NotRun =>
          /\ tally.energies.err = "none"
          /\ Len(tally.energies.val) = Len(tally.values.val)
          /\ \A i \in 1..Len(tally.values.val) :
                IsToken(tally.energies.val[i], tally.values.val[i], TRUE)
    /\ tally.errors # NotRun =>
          /\ tally.errors.err = "none"
          /\ Len(tally.errors.val) = Len(tally.values.val)
          /\ \A i \in 1..Len(tally.values.val) :
                /\ IsToken(tally.errors.val[i], tally.values.val[i], FALSE)
                /\ (\A c \in 1..Len(tally.values.val[i]) :
                        tally.values.val[i][c] \notin {" ", "\t", "\n", "\r"})
                   => tally.errors.val[i] = tally.energies.val[i]

\* Two value blocks parsed, one with a single token, one with two different tokens.
C6_Witness ==
    /\ tally.errors # NotRun
    /\ Len(tally.values.val) >= 2
    /\ \E i, j \in 1..Len(tally.values.val) :
          /\ tally.errors.val[i] = tally.energies.val[i]
          /\ tally.errors.val[j] # tally.energies.val[j]

----------------------------------------------------------------------------
(* float(), sorted(), str.endswith, os.path.splitext, pandas *)

\* The value of a run of decimal digits.
RECURSIVE DigitsValue(_)
DigitsValue(s) ==
    IF s = <<>> THEN 0
    ELSE 10 * DigitsValue(SubSeq(s, 1, Len(s) - 1))
         + (CHOOSE d \in 0..9 : <<"0","1","2","3","4","5","6","7","8","9">>[d + 1] = s[Len(s)])

\* digit (["_"] digit)*
IsDigitPart(s) ==
    /\ Len(s) >= 1
    /\ \A i \in 1..Len(s) : IsDigit(s[i]) \/ s[i] = "_"
    /\ IsDigit(s[1])
    /\ IsDigit(s[Len(s)])
    /\ \A i \in 1..(Len(s) - 1) : ~(s[i] = "_" /\ s[i + 1] = "_")

WithoutUnderscores(s) == SelectSeq(s, LAMBDA c : c # "_")

HasSign(s) == Len(s) >= 1 /\ s[1] \in {"+", "-"}
Unsigned(s) == IF HasSign(s) THEN Tail(s) ELSE s

RECURSIVE Normalized(_, _)
Normalized(mant, exp) ==
    IF mant = 0 THEN <<0, 0>>
    ELSE IF mant % 10 = 0 THEN Normalized(mant \div 10, exp + 1)
    ELSE <<mant, exp>>

PyFloat(kind, neg, mant, exp) ==
    [t |-> "float", kind |-> kind, neg |-> neg, mant |-> mant, exp |-> exp]
PyStr(s) == [t |-> "str", s |-> s]
NaN == PyFloat("nan", FALSE, 0, 0)

\* float(token): the decimal value as mantissa * 10^exp (binary rounding aside), or
\* ValueError when the token is no floating-point literal.
float(token) ==
    LET body == LowerStr(Unsigned(token))
        neg == HasSign(token) /\ token[1] = "-"
        es == {i \in 1..Len(body) : body[i] = "e"}
        epos == IF es = {} THEN Len(body) + 1 ELSE CHOOSE i \in es : \A j \in es : i <= j
        mpart == SubSeq(body, 1, epos - 1)
        xpart == SubSeq(body, epos + 1, Len(body))
        dots == {i \in 1..Len(mpart) : mpart[i] = "."}
        dpos == IF dots = {} THEN Len(mpart) + 1 ELSE CHOOSE i \in dots : TRUE
        ip == SubSeq(mpart, 1, dpos - 1)
        fp == SubSeq(mpart, dpos + 1, Len(mpart))
        wellformed ==
            /\ Cardinality(dots) <= 1
            /\ ip = <<>> \/ IsDigitPart(ip)
            /\ fp = <<>> \/ IsDigitPart(fp)
            /\ ~(ip = <<>> /\ fp = <<>>)
            /\ es # {} => IsDigitPart(Unsigned(xpart))
        xval == IF es = {} THEN 0
                ELSE LET v == DigitsValue(WithoutUnderscores(Unsigned(xpart)))
                     IN  IF HasSign(xpart) /\ xpart[1] = "-" THEN 0 - v ELSE v
    IN  IF body \in { <<"i","n","f">>, <<"i","n","f","i","n","i","t","y">> }
        THEN Ok(PyFloat("inf", neg, 0, 0))
        ELSE IF body = <<"n","a","n">> THEN Ok(PyFloat("nan", neg, 0, 0))
        ELSE IF ~wellformed THEN Raise("ValueError")
        ELSE LET n == Normalized(DigitsValue(WithoutUnderscores(ip \o fp)),
                                 xval - Len(WithoutUnderscores(fp)))
             IN  Ok(PyFloat("finite", neg, n[1], n[2]))

\* list(map(float, tokens))
RECURSIVE MapFloat(_)
MapFloat(tokens) ==
    IF tokens = <<>> THEN Ok(<<>>)
    ELSE LET x == float(Head(tokens))
         IN  IF x.err # "none" THEN x
             ELSE LET rest == MapFloat(Tail(tokens))
                  IN  IF rest.err # "none" THEN rest ELSE Ok(<<x.val>> \o rest.val)

\* The characters of file names, in code-point order.
CodePoints ==
    <<".","0","1","2","3","4","5","6","7","8","9">> \o UpperCase \o <<"_">> \o LowerCase

Ord(c) == CHOOSE i \in 1..Len(CodePoints) : CodePoints[i] = c

\* a < b for Python str: the first differing character decides, a proper prefix is less.
StrLess(a, b) ==
    \E k \in 1..(Len(b)) :
        /\ \A j \in 1..(k - 1) : j <= Len(a) /\ a[j] = b[j]
        /\ k - 1 <= Len(a)
        /\ (k > Len(a) \/ Ord(a[k]) < Ord(b[k]))

\* A mutation of sorted(): descending order.
RECURSIVE sorted_descending(_)
sorted_descending(S) ==
    IF S = {} THEN <<>>
    ELSE LET m == CHOOSE x \in S : \A y \in S \ {x} : StrLess(y, x)
         IN  <<m>> \o sorted_descending(S \ {m})

\* sorted() of distinct strings
RECURSIVE sorted(_)
sorted(S) ==
    IF S = {} THEN <<>>
    ELSE LET m == CHOOSE x \in S : \A y \in S \ {x} : StrLess(x, y)
         IN  <<m>> \o sorted(S \ {m})

MctalSuffix == <<".","m","c","t","a","l">>

\* os.path.splitext(p)[0] for a name without directory separators: cut at the last
\* dot, unless only dots precede it.
splitext_root(p) ==
    LET dots == {i \in 1..Len(p) : p[i] = "."}
    IN  IF dots = {} THEN p
        ELSE LET d == CHOOSE i \in dots : \A j \in dots : j <= i
             IN  IF \E j \in 1..(d - 1) : p[j] # "." THEN SubSeq(p, 1, d - 1) ELSE p

ColumnLabels == << <<"N","a","m","e","s">>, <<"V","a","l","u","e","s">>, <<"E","r","r","o","r","s">> >>

\* A table is a sequence of columns [label, cells], all of the same length.
NumRows(df) == IF df = <<>> THEN 0 ELSE Len(df[1].cells)

\* pd.DataFrame({'Names': ..., 'Values': ..., 'Errors': ...}): lists of different
\* lengths raise ValueError.
DataFrame(names, values, errors) ==
    IF Len(names) # Len(values) \/ Len(values) # Len(errors) THEN Raise("ValueError")
    ELSE Ok(<< [label |-> ColumnLabels[1], cells |-> names],
               [label |-> ColumnLabels[2], cells |-> values],
               [label |-> ColumnLabels[3], cells |-> errors] >>)

PadTo(col, n) ==
    [col EXCEPT !.cells = [i \in 1..n |-> IF i <= Len(col.cells) THEN col.cells[i] ELSE NaN]]

\* pd.concat([left, right], axis=1): the columns side by side over the union of the
\* two row ranges, cells missing from a shorter table filled with NaN.
concat(left, right) ==
    LET n == IF NumRows(left) >= NumRows(right) THEN NumRows(left) ELSE NumRows(right)
    IN  [i \in 1..Len(left) |-> PadTo(left[i], n)] \o [i \in 1..Len(right) |-> PadTo(right[i], n)]

\* list.insert(0, x)
InsertFirst(list, x) == <<x>> \o list

----------------------------------------------------------------------------
(* process_files *)

MaxFileLines == 4

\* A line that serves as a header (mcnpx, an 8-digit count between two words) and as
\* a value block (first and last token numeric).
HeaderAndValueLine ==
    <<"1"," ","m","c","n","p","x"," ","1","2","3","4","5","6","7","8"," ",".","5","\n">>

FileLinePool ==
    { <<"t","a","l","l","y","\n">>,
      <<"v","a","l","s","\n">>,
      HeaderAndValueLine }

\* A file in the usual layout (two tallies, blank lines, indentation), and one whose
\* second value block ends in a word.
TwoTallyFile ==
    << <<"m","c","n","p"," "," ","6"," ","8","7","6","5","4","3","2","1","0"," ","7","\n">>,
       <<"\n">>,
       <<"t","a","l","l","y"," ","4","\n">>,
       <<" ","f","\n">>,
       <<"c","1","\n">>,
       <<"v","a","l","s","\n">>,
       <<" "," ","1",".","0"," ","2",".","0"," ","0",".","0","5","\n">>,
       <<"t","a","l","l","y"," ","1","4","\n">>,
       <<" ","\t","\n">>,
       <<"f","\n">>,
       <<"c","2","\n">>,
       <<"v","a","l","s","\n">>,
       <<"3","e","2","\n">> >>

BadValueFile ==
    << <<"h","\n">>,
       <<"t","a","l","l","y","\n">>,
       <<"v","a","l","s","\n">>,
       <<"1",".","0"," ","x","\n">> >>

FileContents ==
    SeqsUpTo(FileLinePool, MaxFileLines) \cup {TwoTallyFile, BadValueFile, << <<"\n">> >>}

\* Directories: empty, without any ".mctal" entry, with one, and with two listed among
\* other entries; one has an entry that is nothing but the extension.
Directories ==
    { {},
      { <<"a",".","m","c","t","a","l",".","x">>, <<"m","c","t","a","l">> },
      { <<"b",".","m","c","t","a","l">>, <<"a",".","m","c","t","a","l",".","x">> },
      { <<"b",".","m","c","t","a","l">>, <<"a",".","m","c","t","a","l",".","x">>,
        <<"a","b",".","m","c","t","a","l">> },
      { <<"B",".","m","c","t","a","l">>, <<".","m","c","t","a","l">> } }

\* process_files is called on a directory.
Init ==
    /\ norm = NormIdle
    /\ meta = MetaIdle
    /\ tally = TallyIdle
    /\ dir_entries \in Directories
    /\ pc = "start"
    /\ listings = 0
    /\ mctal_files = <<>>
    /\ idx = 0
    /\ open_handles = {}
    /\ was_read = FALSE
    /\ file_lines = <<>>
    /\ locals = LocalsIdle
    /\ data_df = <<>>
    /\ results_df = <<>>
    /\ processed = <<>>
    /\ exported = NotWritten
    /\ error = "none"

\* Lines 61-62: the listing, filtered and sorted; the empty aggregate.
ListDirectory ==
    /\ pc = "start"
    /\ listings' = listings + 1
    /\ mctal_files' = sorted({f \in dir_entries : EndsWith(f, MctalSuffix)})
    /\ results_df' = <<>>
    /\ idx' = 1
    /\ pc' = "for"
    /\ UNCHANGED <<norm, meta, tally, dir_entries, open_handles, was_read, file_lines,
                   locals, data_df, processed, exported, error>>

\* Lines 64-66: the next file of the list is opened.
OpenFile ==
    /\ pc = "for"
    /\ idx <= Len(mctal_files)
    /\ open_handles' = open_handles \cup {mctal_files[idx]}
    /\ was_read' = FALSE
    /\ pc' = "with"
    /\ UNCHANGED <<norm, meta, tally, dir_entries, listings, mctal_files, idx, file_lines,
                   locals, data_df, results_df, processed, exported, error>>

\* Line 67: the file is read to its end and its lines are normalized.
ReadLines ==
    /\ pc = "with"
    /\ \E raw \in FileContents : file_lines' = remove_blank_lines(raw)
    /\ was_read' = TRUE
    /\ pc' = "with_exit"
    /\ UNCHANGED <<norm, meta, tally, dir_entries, listings, mctal_files, idx, open_handles,
                   locals, data_df, results_df, processed, exported, error>>

\* Line 67: readlines() raises (the file does not decode); the with block closes the
\* file as the exception leaves it.
ReadFails ==
    /\ pc = "with"
    /\ open_handles' = open_handles \ {mctal_files[idx]}
    /\ error' = "UnicodeDecodeError"
    /\ pc' = "failed"
    /\ UNCHANGED <<norm, meta, tally, dir_entries, listings, mctal_files, idx, was_read,
                   file_lines, locals, data_df, results_df, processed, exported>>

\* A mutation of CloseFile: the handle is never released.
CloseFile_leaks ==
    /\ pc = "with_exit"
    /\ pc' = "metadata"
    /\ UNCHANGED <<norm, meta, tally, dir_entries, listings, mctal_files, idx, open_handles,
                   was_read, file_lines, locals, data_df, results_df, processed, exported,
                   error>>

\* The end of the with block of line 66: the file is closed.
CloseFile ==
    /\ pc = "with_exit"
    /\ open_handles' = open_handles \ {mctal_files[idx]}
    /\ pc' = "metadata"
    /\ UNCHANGED <<norm, meta, tally, dir_entries, listings, mctal_files, idx, was_read,
                   file_lines, locals, data_df, results_df, processed, exported, error>>

\* Lines 69-71: file_name, mcnp_version, particle_count.
ExtractMetadata ==
    /\ pc = "metadata"
    /\ LET version == extract_version(file_lines)
           particles == extract_particles(file_lines)
       IN  IF version.err # "none"
           THEN /\ error' = version.err
                /\ pc' = "failed"
                /\ locals' = [locals EXCEPT !.file_name = splitext_root(mctal_files[idx])]
           ELSE IF particles.err # "none"
           THEN /\ error' = particles.err
                /\ pc' = "failed"
                /\ locals' = [locals EXCEPT !.file_name = splitext_root(mctal_files[idx]),
                                            !.mcnp_version = version.val]
           ELSE /\ error' = error
                /\ pc' = "tallies"
                /\ locals' = [locals EXCEPT !.file_name = splitext_root(mctal_files[idx]),
                                            !.mcnp_version = version.val,
                                            !.particle_count = particles.val]
    /\ UNCHANGED <<norm, meta, tally, dir_entries, listings, mctal_files, idx, open_handles,
                   was_read, file_lines, data_df, results_df, processed, exported>>

\* Lines 72-73: tally_values, then tally_names.
ExtractTallies ==
    /\ pc = "tallies"
    /\ LET values == extract_tally_values(file_lines)
           names == extract_tally_names(file_lines)
       IN  IF values.err # "none"
           THEN /\ error' = values.err
                /\ pc' = "failed"
                /\ locals' = locals
           ELSE IF names.err # "none"
           THEN /\ error' = names.err
                /\ pc' = "failed"
                /\ locals' = [locals EXCEPT !.tally_values = values.val]
           ELSE /\ error' = error
                /\ pc' = "floats"
                /\ locals' = [locals EXCEPT
                                 !.tally_values = values.val,
                                 !.tally_names = [i \in 1..Len(names.val) |-> PyStr(names.val[i])]]
    /\ UNCHANGED <<norm, meta, tally, dir_entries, listings, mctal_files, idx, open_handles,
                   was_read, file_lines, data_df, results_df, processed, exported>>

\* The tokens of lines 74 and 75, converted.
ConvertedTokens(tokens) == IF tokens.err # "none" THEN tokens ELSE MapFloat(tokens.val)

\* A mutation of ParseValues: a file whose values do not convert is skipped and the
\* loop goes on with the next file.
ParseValues_skips_file ==
    /\ pc = "floats"
    /\ LET energies == ConvertedTokens(extract_energies(locals.tally_values))
           errors == ConvertedTokens(extract_errors(locals.tally_values))
       IN  IF energies.err # "none" \/ errors.err # "none"
           THEN /\ idx' = idx + 1
                /\ pc' = "for"
                /\ locals' = locals
           ELSE /\ idx' = idx
                /\ pc' = "insert"
                /\ locals' = [locals EXCEPT !.energies = energies.val, !.errors = errors.val]
    /\ UNCHANGED <<norm, meta, tally, dir_entries, listings, mctal_files, open_handles,
                   was_read, file_lines, data_df, results_df, processed, exported, error>>

\* Lines 74-75: energies, then errors, as floats.
ParseValues ==
    /\ pc = "floats"
    /\ LET energies == ConvertedTokens(extract_energies(locals.tally_values))
           errors == ConvertedTokens(extract_errors(locals.tally_values))
       IN  IF energies.err # "none"
           THEN /\ error' = energies.err
                /\ pc' = "failed"
                /\ locals' = locals
           ELSE IF errors.err # "none"
           THEN /\ error' = errors.err
                /\ pc' = "failed"
                /\ locals' = [locals EXCEPT !.energies = energies.val]
           ELSE /\ error' = error
                /\ pc' = "insert"
                /\ locals' = [locals EXCEPT !.energies = energies.val, !.errors = errors.val]
    /\ UNCHANGED <<norm, meta, tally, dir_entries, listings, mctal_files, idx, open_handles,
                   was_read, file_lines, data_df, results_df, processed, exported>>

\* A mutation of InsertHeaders: the particle count is not put in front of errors.
InsertHeaders_forgets_errors ==
    /\ pc = "insert"
    /\ locals' = [locals EXCEPT
                     !.tally_names = InsertFirst(@, PyStr(locals.file_name)),
                     !.energies = InsertFirst(@, PyStr(locals.mcnp_version))]
    /\ pc' = "frame"
    /\ UNCHANGED <<norm, meta, tally, dir_entries, listings, mctal_files, idx, open_handles,
                   was_read, file_lines, data_df, results_df, processed, exported, error>>

\* Lines 77-79: the header row is put in front of the three lists.
InsertHeaders ==
    /\ pc = "insert"
    /\ locals' = [locals EXCEPT
                     !.tally_names = InsertFirst(@, PyStr(locals.file_name)),
                     !.energies = InsertFirst(@, PyStr(locals.mcnp_version)),
                     !.errors = InsertFirst(@, PyStr(locals.particle_count))]
    /\ pc' = "frame"
    /\ UNCHANGED <<norm, meta, tally, dir_entries, listings, mctal_files, idx, open_handles,
                   was_read, file_lines, data_df, results_df, processed, exported, error>>

\* Lines 81-87: the file's table is built and put to the right of the aggregate.
BuildTable ==
    /\ pc = "frame"
    /\ LET df == DataFrame(locals.tally_names, locals.energies, locals.errors)
       IN  IF df.err # "none"
           THEN /\ error' = df.err
                /\ pc' = "failed"
                /\ UNCHANGED <<data_df, results_df, processed, idx>>
           ELSE /\ data_df' = df.val
                /\ results_df' = concat(results_df, df.val)
                /\ processed' = Append(processed, [name |-> mctal_files[idx], lines |-> file_lines])
                /\ idx' = idx + 1
                /\ pc' = "for"
                /\ error' = error
    /\ UNCHANGED <<norm, meta, tally, dir_entries, listings, mctal_files, open_handles,
                   was_read, file_lines, locals, exported>>

\* Lines 89-90: after the last file, the aggregate is written to tally_extractor.xlsx.
Export ==
    /\ pc = "for"
    /\ idx > Len(mctal_files)
    /\ exported' = [written |-> TRUE, table |-> results_df]
    /\ pc' = "done"
    /\ UNCHANGED <<norm, meta, tally, dir_entries, listings, mctal_files, idx, open_handles,
                   was_read, file_lines, locals, data_df, results_df, processed, error>>

Next ==
    \/ ListDirectory
    \/ OpenFile
    \/ ReadLines
    \/ ReadFails
    \/ CloseFile
    \/ ExtractMetadata
    \/ ExtractTallies
    \/ ParseValues
    \/ InsertHeaders
    \/ BuildTable
    \/ Export

Spec == Init /\ [][Next]_vars

----------------------------------------------------------------------------
(* C1, C2, C7, C10 *)

FirstToken(line) == split(line)[1]
LastToken(line) == split(line)[Len(split(line))]

\* The anomalies of a file: a tally marker with fewer than two lines after it, a vals
\* marker on the last line, a value block whose first or last token float() rejects.
HasAnomaly(L) ==
    \/ \E i \in TallyMarkers(L) : Len(L) - i < 2
    \/ \E i \in ValsMarkers(L) : i = Len(L)
    \/ \E i \in ValsMarkers(L) :
          /\ i < Len(L)
          /\ \/ float(FirstToken(L[i + 1])).err # "none"
             \/ float(LastToken(L[i + 1])).err # "none"

ProcessedNames == [i \in 1..Len(processed) |-> processed[i].name]

C1_StateInvariant ==
    /\ pc \in {"insert", "frame"} => ~HasAnomaly(file_lines)
    /\ \A i \in 1..Len(processed) : ~HasAnomaly(processed[i].lines)
    /\ pc = "failed" =>
          /\ error # "none"
          /\ exported = NotWritten
          /\ ProcessedNames = SubSeq(mctal_files, 1, idx - 1)
    /\ exported.written => (pc = "done" /\ error = "none" /\ ProcessedNames = mctal_files)

\* C1: a file with an anomaly ends the run at that file: its table is never built, no
\* later file is processed and tally_extractor.xlsx is never written, whatever was
\* accumulated before.
C1_FailureAbortsRun ==
    /\ []C1_StateInvariant
    /\ [][pc = "failed" => (pc' = "failed" /\ processed' = processed /\ exported' = exported)]_vars
    /\ [][(pc \in {"metadata", "tallies", "floats"} /\ HasAnomaly(file_lines)) =>
             (pc' \in {"tallies", "floats", "failed"} /\ idx' = idx /\ exported' = exported)]_vars

\* The second file fails on an anomaly after the first one was accumulated.
C1_Witness ==
    /\ pc = "failed"
    /\ idx = 2
    /\ Len(mctal_files) >= 2
    /\ results_df # <<>>
    /\ HasAnomaly(file_lines)
    /\ error = "ValueError"
    /\ exported = NotWritten

\* C2 as stated: once a file's extraction steps have completed and the header is
\* prepended, the three sequences have the same length, whatever the file holds.
C2_EqualLengthsAlways ==
    pc = "frame" =>
        /\ Len(locals.tally_names) = Len(locals.energies)
        /\ Len(locals.energies) = Len(locals.errors)

\* C2, amended: after the header is prepended, names has 1 + (lines containing
\* "tally") entries and energies and errors each 1 + (lines equal to "vals"); when
\* the two counts agree the file's table is built, three columns of 1 + count rows;
\* when they differ no table is built and the run fails.
C2_TableWhenCountsAgree ==
    [][pc = "frame" =>
         LET nt == Cardinality(TallyMarkers(file_lines))
             nv == Cardinality(ValsMarkers(file_lines))
         IN  /\ Len(locals.tally_names) = 1 + nt
             /\ Len(locals.energies) = 1 + nv
             /\ Len(locals.errors) = 1 + nv
             /\ nt = nv =>
                   /\ pc' = "for"
                   /\ Len(data_df') = 3
                   /\ \A c \in 1..3 :
                         /\ data_df'[c].label = ColumnLabels[c]
                         /\ Len(data_df'[c].cells) = 1 + nt
             /\ nt # nv => (pc' = "failed" /\ data_df' = data_df /\ results_df' = results_df)
    ]_vars

\* A table of three rows was built for a file with two tallies and two value blocks.
C2_Witness ==
    /\ pc = "for"
    /\ processed # <<>>
    /\ NumRows(data_df) = 3
    /\ Cardinality(TallyMarkers(file_lines)) = 2
    /\ Cardinality(ValsMarkers(file_lines)) = 2

IsMctalName(f) ==
    /\ Len(f) >= 6
    /\ SubSeq(f, Len(f) - 5, Len(f)) = <<".","m","c","t","a","l">>

\* The name without its ".mctal" extension; a name that is nothing but the extension
\* (dots aside) has none to remove.
BaseName(f) ==
    IF \E i \in 1..(Len(f) - 6) : f[i] # "." THEN SubSeq(f, 1, Len(f) - 6) ELSE f

RowsOf(p) == 1 + Cardinality(TallyMarkers(p.lines))

\* C7: the exported table has one (Names, Values, Errors) triple per ".mctal" entry
\* of the directory and none for other entries, in ascending file-name order; each
\* triple starts with (base name, version label, particle label); the table has as
\* many rows as the longest triple, shorter triples being blank below their last row.
C7_ExportedTable ==
    pc = "done" =>
        LET T == exported.table
            n == Cardinality({f \in dir_entries : IsMctalName(f)})
        IN  /\ exported.written
            /\ Len(T) = 3 * n
            /\ Len(processed) = n
            /\ {processed[j].name : j \in 1..n} = {f \in dir_entries : IsMctalName(f)}
            /\ \A i, j \in 1..n : i < j => StrLess(processed[i].name, processed[j].name)
            /\ \A j \in 1..n :
                  /\ T[3 * j - 2].label = <<"N","a","m","e","s">>
                  /\ T[3 * j - 1].label = <<"V","a","l","u","e","s">>
                  /\ T[3 * j].label = <<"E","r","r","o","r","s">>
                  /\ T[3 * j - 2].cells[1] = PyStr(BaseName(processed[j].name))
                  /\ T[3 * j - 1].cells[1] = PyStr(extract_version(processed[j].lines).val)
                  /\ T[3 * j].cells[1] = PyStr(extract_particles(processed[j].lines).val)
                  /\ \A c \in (3 * j - 2)..(3 * j) :
                        /\ \A k \in 1..n : Len(T[c].cells) >= RowsOf(processed[k])
                        /\ \E k \in 1..n : Len(T[c].cells) = RowsOf(processed[k])
                        /\ \A r \in 1..Len(T[c].cells) :
                              r > RowsOf(processed[j]) <=> T[c].cells[r] = NaN

\* A directory with two ".mctal" files, listed against their order, and another
\* entry; the first file has fewer tallies than the second.
C7_Witness ==
    /\ pc = "done"
    /\ Len(processed) = 2
    /\ Cardinality(dir_entries) = 3
    /\ RowsOf(processed[1]) < RowsOf(processed[2])
    /\ Len(exported.table) = 6
    /\ exported.table[1].cells[2] = NaN
    /\ exported.table[5].cells[1] = PyStr(LabelMCNP6)

\* C10: at most one file is open at a time, and only between open() and the end of
\* the with block; the file is read to its end and closed before its lines are
\* extracted or the next file is opened; no file is open once the run has failed; the
\* directory is listed once, before the first open.
C10_OneHandleAtATime ==
    /\ Cardinality(open_handles) <= 1
    /\ open_handles # {} =>
          /\ pc \in {"with", "with_exit"}
          /\ open_handles = {mctal_files[idx]}
          /\ listings = 1
    /\ pc = "with_exit" => was_read
    /\ pc \in {"metadata", "tallies", "floats", "insert", "frame", "for", "done", "failed"} =>
          open_handles = {}
    /\ pc \in {"metadata", "tallies", "floats", "insert", "frame"} => was_read
    /\ listings = (IF pc = "start" THEN 0 ELSE 1)

\* The run failed on a conversion in its second file, with no file open.
C10_Witness ==
    /\ pc = "failed"
    /\ error = "ValueError"
    /\ idx = 2
    /\ was_read
    /\ open_handles = {}
    /\ listings = 1

=============================================================================
